---------------------------- MODULE Spec2Model ----------------------------
(***************************************************************************)
(* Model of utilities/plot.py: the three table-driven plotting functions  *)
(* plot_tpc, plot_crate and plot_wire_planes.  One behaviour is one call: *)
(* Init fixes the function and its arguments, each action is one pass of  *)
(* a loop body or the code that follows the loop, and a call ends either  *)
(* in pc = "done" (normal return) or in pc = "raised" (an exception left  *)
(* the function: nothing in the file catches one).                        *)
(*                                                                         *)
(* Python values with two possible types are records: an argument that    *)
(* may be a scalar or a list is [isList |-> ..., vals |-> <<...>>], a      *)
(* scalar being the one-element vals.  Text is a sequence of tokens, so   *)
(* that ' vs. '.join(...) is an interleaving and not a string identity.   *)
(***************************************************************************)
EXTENDS Integers, Sequences, FiniteSets

VARIABLES fn, datasets, chmap, labels, tpc, component,
          pc, exc, pi, di,
          scatter, hist, xlim, xticks,
          ax, title, suptitle, segments

vars == <<fn, datasets, chmap, labels, tpc, component, pc, exc, pi, di,
          scatter, hist, xlim, xticks, ax, title, suptitle, segments>>

inputs == <<fn, datasets, chmap, labels, tpc, component>>

-----------------------------------------------------------------------------
(* Bounds of the model *)

\* datasets handed to one call
MaxDatasets == 2
\* rows of all the datasets of one call, taken together
MaxRows == 2
\* rows of the channel map
MaxChmap == 2
\* largest integer tpc argument tried (one past the last named TPC)
MaxTpc == 4
\* longest list given where the docstring allows a list
MaxList == 2

-----------------------------------------------------------------------------
(* Constants of the program *)

nchannels == <<2304, 5760, 5760>>
ndivs == <<288, 576, 576>>
planes == <<"Induction 1", "Induction 2", "Collection">>
ChannelsPerTpc == 13824
ChannelsPerBoard == 64
tpc_name == [t \in 0..3 |-> <<"EE", "EW", "WE", "WW">>[t + 1]]
ClimLow == 0
ClimHigh == 10
LutSize == 256

-----------------------------------------------------------------------------
(* Python and library primitives *)

Scalar(v) == [isList |-> FALSE, vals |-> <<v>>]
List(vs) == [isList |-> TRUE, vals |-> vs]

SeqsUpTo(S, n) == UNION {[1..k -> S] : k \in 0..n}
SeqsFromTo(S, m, n) == UNION {[1..k -> S] : k \in m..n}

\* sum(s[:n])
RECURSIVE SumFirst(_, _)
SumFirst(s, n) == IF n = 0 THEN 0 ELSE SumFirst(s, n - 1) + s[n]

\* np.arange(start, stop, step) for step > 0
Arange(start, stop, step) ==
    LET n == IF stop <= start THEN 0 ELSE ((stop - start) + step - 1) \div step
    IN  [k \in 1..n |-> start + (k - 1) * step]

\* column[mask]
RECURSIVE Take(_, _)
Take(col, mask) ==
    IF col = <<>> THEN <<>>
    ELSE (IF Head(mask) THEN <<Head(col)>> ELSE <<>>) \o Take(Tail(col), Tail(mask))

Column(table, name) == [r \in 1..Len(table) |-> table[r][name]]

Failed == [ok |-> FALSE, mask |-> <<>>]
Mask(m) == [ok |-> TRUE, mask |-> m]

\* column == arg.  A scalar is compared with every row.  A list is compared
\* position by position when it is as long as the column; a list of another
\* length raises in a pandas Series ("Lengths must match to compare") and in
\* a numpy array cannot be broadcast, except that numpy broadcasts a list of
\* one element like a scalar: both outcomes are kept.
ColumnEqLengthsDiffer(col, arg) ==
    IF Len(arg.vals) = 1
    THEN {Mask([r \in 1..Len(col) |-> col[r] = arg.vals[1]]), Failed}
    ELSE {Failed}

ColumnEq(col, arg) ==
    IF ~arg.isList
    THEN {Mask([r \in 1..Len(col) |-> col[r] = arg.vals[1]])}
    ELSE IF Len(arg.vals) = Len(col)
         THEN {Mask([r \in 1..Len(col) |-> col[r] = arg.vals[r]])}
         ELSE ColumnEqLengthsDiffer(col, arg)

\* a & b on two masks of one table
MaskAnd(a, b) == [r \in 1..Len(a) |-> a[r] /\ b[r]]

\* sep.join(names), as tokens
RECURSIVE Join(_, _)
Join(names, sep) ==
    IF Len(names) = 0 THEN <<>>
    ELSE IF Len(names) = 1 THEN <<names[1]>>
    ELSE <<names[1], sep>> \o Join(Tail(names), sep)

\* str(list of names), as tokens: what Text.set_text makes of a list
RECURSIVE ReprItems(_)
ReprItems(names) ==
    IF Len(names) = 0 THEN <<>>
    ELSE <<"'", names[1], "'">> \o (IF Len(names) = 1 THEN <<>> ELSE <<", ">>)
         \o ReprItems(Tail(names))

ListRepr(names) == <<"[">> \o ReprItems(names) \o <<"]">>

-----------------------------------------------------------------------------
(* Input tables *)

RowTpcs == 0..1
RowPlanes == 0..3
Flanges == {"WW19", "EW05"}
Boards == 0..1
Chs == {0, 63}

\* The metric of a row: a measurement that is different for every row of a
\* call, so that a plotted value tells which row it came from.
MetricOf(d, r) == (d - 1) * MaxRows + r

TpcTable(d, kinds) ==
    [r \in 1..Len(kinds) |->
        [tpc |-> kinds[r][1], plane |-> kinds[r][2],
         channel_id |-> ChannelsPerTpc * kinds[r][1] + MetricOf(d, r),
         metric |-> MetricOf(d, r)]]

CrateTable(d, kinds) ==
    [r \in 1..Len(kinds) |->
        [flange |-> kinds[r][1], board |-> kinds[r][2], ch |-> kinds[r][3],
         metric |-> MetricOf(d, r)]]

\* the lists of n tables of row kinds that hold at most k rows in all
RECURSIVE KindLists(_, _, _)
KindLists(K, n, k) ==
    IF n = 0 THEN {<<>>}
    ELSE UNION { {<<t>> \o rest : rest \in KindLists(K, n - 1, k - Len(t))}
                 : t \in SeqsUpTo(K, k) }

\* the dataset lists of a call, as row kinds: at most MaxDatasets tables
KindTables(K) == UNION {KindLists(K, n, MaxRows) : n \in 0..MaxDatasets}

TpcDatasetLists ==
    { [d \in 1..Len(ks) |-> TpcTable(d, ks[d])] : ks \in KindTables(RowTpcs \X RowPlanes) }
\* dataset lists whose rows all belong to TPC 0, for calls that vary the index
AxisDatasetLists ==
    { [d \in 1..Len(ks) |-> TpcTable(d, ks[d])] : ks \in KindTables({0} \X (0..2)) }
CrateDatasetLists ==
    { [d \in 1..Len(ks) |-> CrateTable(d, ks[d])]
      : ks \in KindTables(Flanges \X Boards \X Chs) }

LabelsOf(n) == [i \in 1..n |-> i]

\* Label falling back on a default label past the end of the list
LabelOrDefault(ls, i) ==
    IF i < Len(ls) THEN [ok |-> TRUE, v |-> ls[i + 1]] ELSE [ok |-> TRUE, v |-> 0]

\* labels[i]: the label, or an IndexError past the end of the list
Label(ls, i) ==
    IF i < Len(ls) THEN [ok |-> TRUE, v |-> ls[i + 1]] ELSE [ok |-> FALSE, v |-> 0]

-----------------------------------------------------------------------------
(* plot_tpc *)

EmptyPanels == [p \in 0..2 |-> <<>>]
NoTitle == [bound |-> FALSE, isList |-> FALSE, text |-> <<>>]

CallInit(f, ds, cm, ls, t, c) ==
    /\ fn = f /\ datasets = ds /\ chmap = cm /\ labels = ls
    /\ tpc = t /\ component = c
    /\ pc = "run" /\ exc = "" /\ pi = 0 /\ di = 0
    /\ scatter = EmptyPanels /\ hist = EmptyPanels
    /\ xlim = EmptyPanels /\ xticks = EmptyPanels
    /\ ax = <<>> /\ title = NoTitle /\ suptitle = <<>>
    /\ segments = EmptyPanels

Raise(e) == pc' = "raised" /\ exc' = e

\* xlow = 13824*tpc + sum(nchannels[:pi]), for an integer tpc
XLow(t, p) == ChannelsPerTpc * t + SumFirst(nchannels, p)
\* xhigh = xlow + nchannels[pi]
XHigh(t, p) == XLow(t, p) + nchannels[p + 1]
\* XTicks with the stop left at xhigh, which np.arange excludes
XTicksStopAtHigh(t, p) == Arange(XLow(t, p), XHigh(t, p), ndivs[p + 1])

\* np.arange(xlow, xhigh+ndivs[pi], ndivs[pi])
XTicks(t, p) == Arange(XLow(t, p), XHigh(t, p) + ndivs[p + 1], ndivs[p + 1])

\* TpcMask with the test on the tpc column dropped
TpcMaskPlaneOnly(d, t, p) ==
    { Mask([r \in 1..Len(d) |-> d[r].plane = p]) }

\* mask = ((d['tpc'] == tpc) & (d['plane'] == pi))
TpcMask(d, t, p) ==
    { IF m.ok THEN Mask(MaskAnd(m.mask, [r \in 1..Len(d) |-> d[r].plane = p])) ELSE Failed
      : m \in ColumnEq(Column(d, "tpc"), t) }

\* One pass of the inner loop body: dataset di on the panels of plane pi.
TpcIter ==
    /\ fn = "plot_tpc" /\ pc = "run" /\ pi < Len(planes) /\ di < Len(datasets)
    /\ \E m \in TpcMask(datasets[di + 1], tpc, pi) :
        LET d == datasets[di + 1]
            call == [x |-> Take(Column(d, "channel_id"), m.mask),
                     y |-> Take(Column(d, "metric"), m.mask),
                     label |-> Label(labels, di).v]
            bars == [v |-> Take(Column(d, "metric"), m.mask),
                     label |-> Label(labels, di).v]
        IN  IF ~m.ok
            THEN /\ Raise("ValueError")
                 /\ UNCHANGED <<scatter, hist, xlim, xticks, di>>
            ELSE IF ~Label(labels, di).ok
            THEN /\ Raise("IndexError")
                 /\ UNCHANGED <<scatter, hist, xlim, xticks, di>>
            ELSE IF tpc.isList
            THEN /\ scatter' = [scatter EXCEPT ![pi] = Append(@, call)]
                 /\ Raise("TypeError")
                 /\ UNCHANGED <<hist, xlim, xticks, di>>
            ELSE /\ scatter' = [scatter EXCEPT ![pi] = Append(@, call)]
                 /\ xlim' = [xlim EXCEPT ![pi] =
                               <<XLow(tpc.vals[1], pi), XHigh(tpc.vals[1], pi)>>]
                 /\ xticks' = [xticks EXCEPT ![pi] = XTicks(tpc.vals[1], pi)]
                 /\ hist' = [hist EXCEPT ![pi] = Append(@, bars)]
                 /\ di' = di + 1
                 /\ UNCHANGED <<pc, exc>>
    /\ UNCHANGED <<inputs, pi, ax, title, suptitle, segments>>

\* The inner loop is exhausted: the outer loop takes the next plane.
TpcNextPlane ==
    /\ fn = "plot_tpc" /\ pc = "run" /\ pi < Len(planes) /\ di = Len(datasets)
    /\ pi' = pi + 1 /\ di' = 0
    /\ UNCHANGED <<inputs, pc, exc, scatter, hist, xlim, xticks,
                   ax, title, suptitle, segments>>

\* The outer loop is exhausted: the function returns.
TpcReturn ==
    /\ fn = "plot_tpc" /\ pc = "run" /\ pi = Len(planes)
    /\ pc' = "done"
    /\ UNCHANGED <<inputs, exc, pi, di, scatter, hist, xlim, xticks,
                   ax, title, suptitle, segments>>

TpcInts == {Scalar(t) : t \in (0 - 1)..MaxTpc}
TpcLists == {List(l) : l \in SeqsFromTo(RowTpcs, 1, MaxList)}

\* calls on any tables, with the index of a TPC of the rows or with a list
InitTpc ==
    \E ds \in TpcDatasetLists, t \in {Scalar(u) : u \in RowTpcs} \cup TpcLists :
        CallInit("plot_tpc", ds, <<>>, LabelsOf(Len(ds)), t, Scalar(""))

\* calls with any integer index, on tables of TPC 0
InitAxis ==
    \E ds \in AxisDatasetLists, t \in TpcInts :
        CallInit("plot_tpc", ds, <<>>, LabelsOf(Len(ds)), t, Scalar(""))

NextTpc == TpcIter \/ TpcNextPlane \/ TpcReturn

SpecTpc == InitTpc /\ [][NextTpc]_vars

SpecAxis == InitAxis /\ [][NextTpc]_vars

-----------------------------------------------------------------------------
(* plot_crate *)

\* isinstance(component, list) and len(component) == len(datasets)
PerDataset == component.isList /\ Len(component.vals) = Len(datasets)

\* CrateC taking the first name of the list for every dataset
CrateCFirst == IF PerDataset THEN Scalar(component.vals[1]) ELSE component

\* c and title as the loop body assigns them for dataset di
CrateC == IF PerDataset THEN Scalar(component.vals[di + 1]) ELSE component
CrateTitle ==
    IF PerDataset
    THEN [bound |-> TRUE, isList |-> FALSE, text |-> Join(component.vals, " vs. ")]
    ELSE [bound |-> TRUE, isList |-> component.isList, text |-> component.vals]

\* CrateX with board and channel exchanged
CrateXSwapped(d, selected) ==
    Take([r \in 1..Len(d) |-> ChannelsPerBoard * d[r].ch + d[r].board], selected)

\* x = 64*d['board'][selected] + d['ch'][selected]
CrateX(d, selected) ==
    Take([r \in 1..Len(d) |-> ChannelsPerBoard * d[r].board + d[r].ch], selected)

\* One pass of the loop body: dataset di on the one axes.
CrateIter ==
    /\ fn = "plot_crate" /\ pc = "run" /\ di < Len(datasets)
    /\ title' = CrateTitle
    /\ \E m \in ColumnEq(Column(datasets[di + 1], "flange"), CrateC) :
        LET d == datasets[di + 1]
            call == [x |-> CrateX(d, m.mask),
                     y |-> Take(Column(d, "metric"), m.mask),
                     label |-> Label(labels, di).v]
        IN  IF ~m.ok
            THEN Raise("ValueError") /\ UNCHANGED <<ax, di>>
            ELSE IF ~Label(labels, di).ok
            THEN Raise("IndexError") /\ UNCHANGED <<ax, di>>
            ELSE /\ ax' = Append(ax, call)
                 /\ di' = di + 1
                 /\ UNCHANGED <<pc, exc>>
    /\ UNCHANGED <<inputs, pi, scatter, hist, xlim, xticks, suptitle, segments>>

\* After the loop: the axes cosmetics and figure.suptitle(title).
CrateFinish ==
    /\ fn = "plot_crate" /\ pc = "run" /\ di = Len(datasets)
    /\ IF ~title.bound
       THEN Raise("UnboundLocalError") /\ UNCHANGED suptitle
       ELSE /\ suptitle' = IF title.isList THEN ListRepr(title.text) ELSE title.text
            /\ pc' = "done"
            /\ UNCHANGED exc
    /\ UNCHANGED <<inputs, pi, di, scatter, hist, xlim, xticks, ax, title, segments>>

CrateNames == {Scalar(c) : c \in Flanges}
CrateLists == {List(l) : l \in SeqsFromTo(Flanges, 1, MaxList)}

InitCrate ==
    \E ds \in CrateDatasetLists, c \in CrateNames \cup CrateLists :
        CallInit("plot_crate", ds, <<>>, LabelsOf(Len(ds)), Scalar(0), c)

NextCrate == CrateIter \/ CrateFinish

SpecCrate == InitCrate /\ [][NextCrate]_vars

-----------------------------------------------------------------------------
(* plot_wire_planes *)

\* channel ids on both sides of the boundary between TPC 0 and TPC 1
WireChannels == {ChannelsPerTpc - 1, ChannelsPerTpc}

\* Wire r of the channel map has end points of its own.
ChmapTable(cids) ==
    [r \in 1..Len(cids) |->
        [channel_id |-> cids[r], z0 |-> r, y0 |-> 0 - r, z1 |-> r + 10, y1 |-> r + 20]]

WireTable(kinds) ==
    [r \in 1..Len(kinds) |->
        [channel_id |-> kinds[r][1], plane |-> kinds[r][2], metric |-> MetricOf(1, r)]]

\* ChmapTpc for channel ids counted from 1
ChmapTpcFromOne(c) == (c - 1) \div ChannelsPerTpc

\* data.chmap['channel_id'] // 13824
ChmapTpc(c) == c \div ChannelsPerTpc

\* wires = data.chmap.loc[mask][['channel_id', 'z0', 'y0', 'z1', 'y1']]
WireRows(cm, t) ==
    Take(cm, [r \in 1..Len(cm) |-> ChmapTpc(cm[r].channel_id) = t])

\* tmp = pd.DataFrame({'channel_id': ..., metric: ...}).loc[data['plane'] == p]
MetricRows(data, p) ==
    Take([r \in 1..Len(data) |->
            [channel_id |-> data[r].channel_id, metric |-> data[r].metric]],
         [r \in 1..Len(data) |-> data[r].plane = p])

\* MergeOne keeping only the first row of the right table of the key
RECURSIVE MergeOneFirst(_, _)
MergeOneFirst(l, right) ==
    IF right = <<>> THEN <<>>
    ELSE IF Head(right).channel_id = l.channel_id
         THEN <<[channel_id |-> l.channel_id, z0 |-> l.z0, y0 |-> l.y0,
                 z1 |-> l.z1, y1 |-> l.y1, metric |-> Head(right).metric]>>
         ELSE MergeOneFirst(l, Tail(right))

\* one row of the left table with every row of the right table of its key
RECURSIVE MergeOne(_, _)
MergeOne(l, right) ==
    IF right = <<>> THEN <<>>
    ELSE (IF Head(right).channel_id = l.channel_id
          THEN <<[channel_id |-> l.channel_id, z0 |-> l.z0, y0 |-> l.y0,
                  z1 |-> l.z1, y1 |-> l.y1, metric |-> Head(right).metric]>>
          ELSE <<>>) \o MergeOne(l, Tail(right))

\* left.merge(right, how='inner', left_on='channel_id', right_on='channel_id')
RECURSIVE Merge(_, _)
Merge(left, right) ==
    IF left = <<>> THEN <<>>
    ELSE MergeOne(Head(left), right) \o Merge(Tail(left), right)

\* cmap.to_rgba(v) under set_clim(0,10): the entry of the colour table
ToRgba(v) ==
    IF v <= ClimLow THEN 0
    ELSE IF v >= ClimHigh THEN LutSize - 1
    ELSE ((v - ClimLow) * LutSize) \div (ClimHigh - ClimLow)

\* WireCollection with the row indices one too low: (x[0], x[1]), (x[2], x[3])
WireCollectionShifted(cm, data, t, p) ==
    LET wires == Merge(WireRows(cm, t), MetricRows(data, p))
    IN  [k \in 1..Len(wires) |->
            [a |-> <<wires[k].channel_id, wires[k].z0>>,
             b |-> <<wires[k].y0, wires[k].z1>>,
             color |-> ToRgba(wires[k].metric)]]

\* the LineCollection of panel p: its segments and their colours
WireCollection(cm, data, t, p) ==
    LET wires == Merge(WireRows(cm, t), MetricRows(data, p))
    IN  [k \in 1..Len(wires) |->
            [a |-> <<wires[k].z0, wires[k].y0>>,
             b |-> <<wires[k].z1, wires[k].y1>>,
             color |-> ToRgba(wires[k].metric)]]

\* One pass of the loop body: the panel of plane pi.
WireIter ==
    /\ fn = "plot_wire_planes" /\ pc = "run" /\ pi <= 2
    /\ segments' = [segments EXCEPT ![pi] =
                      WireCollection(chmap, datasets[1], tpc.vals[1], pi)]
    /\ pi' = pi + 1
    /\ UNCHANGED <<inputs, pc, exc, di, scatter, hist, xlim, xticks,
                   ax, title, suptitle>>

\* TpcName with dict.get(tpc, '') in place of the subscript
TpcNameGet(t) ==
    IF t \in DOMAIN tpc_name THEN [ok |-> TRUE, v |-> tpc_name[t]]
    ELSE [ok |-> TRUE, v |-> ""]

\* tpc_name[tpc]: the name, or a KeyError for a key the dict does not hold
TpcName(t) ==
    IF t \in DOMAIN tpc_name THEN [ok |-> TRUE, v |-> tpc_name[t]]
    ELSE [ok |-> FALSE, v |-> ""]

\* After the loop: the colour bar and figure.suptitle(... tpc_name[tpc]).
WireFinish ==
    /\ fn = "plot_wire_planes" /\ pc = "run" /\ pi = 3
    /\ IF TpcName(tpc.vals[1]).ok
       THEN /\ suptitle' = <<"metric_label", " by Plane for ", TpcName(tpc.vals[1]).v>>
            /\ pc' = "done"
            /\ UNCHANGED exc
       ELSE Raise("KeyError") /\ UNCHANGED suptitle
    /\ UNCHANGED <<inputs, pi, di, scatter, hist, xlim, xticks, ax, title, segments>>

InitWire ==
    \E cids \in SeqsUpTo(WireChannels, MaxChmap),
       kinds \in SeqsUpTo(WireChannels \X RowPlanes, MaxRows),
       t \in TpcInts :
        CallInit("plot_wire_planes", <<WireTable(kinds)>>, ChmapTable(cids),
                 <<>>, t, Scalar(""))

NextWire == WireIter \/ WireFinish

SpecWire == InitWire /\ [][NextWire]_vars

-----------------------------------------------------------------------------
(* Calls whose labels need not match the datasets; calls by TPC index *)

LabelCounts(n) == {k \in (n - 1)..(n + 1) : k >= 0}

InitLabels ==
    \/ \E ds \in TpcDatasetLists, t \in RowTpcs :
       \E nl \in LabelCounts(Len(ds)) :
          CallInit("plot_tpc", ds, <<>>, LabelsOf(nl), Scalar(t), Scalar(""))
    \/ \E ds \in CrateDatasetLists, c \in CrateNames :
       \E nl \in LabelCounts(Len(ds)) :
          CallInit("plot_crate", ds, <<>>, LabelsOf(nl), Scalar(0), c)

NextLabels == NextTpc \/ NextCrate

SpecLabels == InitLabels /\ [][NextLabels]_vars

InitRange == InitAxis \/ InitWire

NextRange == NextTpc \/ NextWire

SpecRange == InitRange /\ [][NextRange]_vars

-----------------------------------------------------------------------------
(* Selection in plot_tpc *)

Count(S) == Cardinality(S)
Rows(d) == 1..Len(datasets[d])
IntTpc == fn = "plot_tpc" /\ ~tpc.isList

\* the points of scatter call `call` that show row r of dataset d
TpcPointsOf(call, d, r) ==
    {k \in 1..Len(call.x) : /\ call.x[k] = datasets[d][r].channel_id
                            /\ call.y[k] = datasets[d][r].metric}
\* the histogram entries of hist call `bars` that come from row r of dataset d
TpcEntriesOf(bars, d, r) ==
    {k \in 1..Len(bars.v) : bars.v[k] = datasets[d][r].metric}

TpcSelected(d, r, p) ==
    datasets[d][r].tpc = tpc.vals[1] /\ datasets[d][r].plane = p

-----------------------------------------------------------------------------
(* Axis windows of plot_tpc *)

PlaneOffset == <<0, 2304, 8064>>
PlaneChannels == <<2304, 5760, 5760>>
PlaneTickStep == <<288, 576, 576>>

ProbeChannels ==
    {13824 * k + o + e : k \in (0 - 2)..(MaxTpc + 1),
                         o \in {0, 2304, 8064}, e \in (0 - 1)..1}
    \cup {1152 * j : j \in (0 - 12)..(12 * (MaxTpc + 1))}

InWindow(w, c) == w[1] <= c /\ c < w[2]

\* C10: when plot_tpc has returned for an integer TPC index t >= 0 (with a
\* dataset, so that the windows were set), the windows of planes 0, 1, 2 are
\* contiguous and span 13824*t to 13824*(t+1); a channel id lies in one of the
\* half-open windows exactly if the TPC rule of plot_wire_planes, c // 13824,
\* gives t; and no window of another TPC index overlaps them.
C10_Windows ==
    (IntTpc /\ pc = "done" /\ Len(datasets) >= 1 /\ tpc.vals[1] >= 0) =>
      LET t == tpc.vals[1] IN
      /\ xlim[0][1] = 13824 * t
      /\ xlim[0][2] = xlim[1][1]
      /\ xlim[1][2] = xlim[2][1]
      /\ xlim[2][2] = 13824 * (t + 1)
      /\ \A p \in 0..2 : xlim[p][1] < xlim[p][2]
      /\ \A c \in ProbeChannels :
            /\ (\E p \in 0..2 : InWindow(xlim[p], c)) <=> ChmapTpc(c) = t
            /\ Count({p \in 0..2 : InWindow(xlim[p], c)}) <= 1
      /\ \A u \in 0..MaxTpc : u # t =>
            \A p, q \in 0..2 :
                XHigh(u, q) <= xlim[p][1] \/ xlim[p][2] <= XLow(u, q)

\* plot_tpc returned for TPC 1, which has a neighbour on either side
C10_Witness ==
    /\ IntTpc /\ pc = "done" /\ Len(datasets) >= 1 /\ tpc.vals[1] = 1
    /\ xlim[0] # <<>> /\ xlim[2] # <<>>

-----------------------------------------------------------------------------
(* A list for the tpc argument of plot_tpc *)

\* C8: plot_tpc given a list of TPC indices never fails, and on return has
\* plotted on panel p the rows of plane p that belong to a listed TPC.
C8_ListTpcAccepted ==
    (fn = "plot_tpc" /\ tpc.isList) =>
      /\ pc # "raised"
      /\ pc = "done" =>
            \A p \in 0..2 : \A d \in 1..Len(datasets) :
                /\ Len(scatter[p]) = Len(datasets)
                /\ Len(scatter[p][d].y)
                      = Count({r \in Rows(d) :
                                 /\ datasets[d][r].plane = p
                                 /\ \E i \in 1..Len(tpc.vals) :
                                        datasets[d][r].tpc = tpc.vals[i]})

\* plot_tpc was given a list and a dataset, and an exception left it
C8_Witness ==
    /\ fn = "plot_tpc" /\ tpc.isList /\ Len(datasets) >= 1
    /\ pc = "raised" /\ exc = "TypeError"

-----------------------------------------------------------------------------
(* Selection in plot_crate *)

\* the points of scatter call `call` that show row r of dataset d
CratePointsOf(call, d, r) ==
    {k \in 1..Len(call.x) :
        /\ call.x[k] = 64 * datasets[d][r].board + datasets[d][r].ch
        /\ call.y[k] = datasets[d][r].metric}

\* the one name dataset d is filtered by, when there is one
OneName == fn = "plot_crate" /\ (~component.isList \/ Len(component.vals) = Len(datasets))
NameFor(d) == IF component.isList THEN component.vals[d] ELSE component.vals[1]

\* C2: in plot_crate, when dataset d is filtered by one component name (the
\* name given, or the d-th of a list as long as the dataset list), the d-th
\* scatter call holds one point per row of dataset d whose flange is that
\* name and no other point; the point of a row is at x = 64*board + ch of the
\* row with the row's metric as y.  On return there is one call per dataset.
C2_CrateSelection ==
    OneName =>
      /\ \A d \in 1..Len(ax) :
            /\ Len(ax[d].x) = Len(ax[d].y)
            /\ Len(ax[d].x) = Count({r \in Rows(d) : datasets[d][r].flange = NameFor(d)})
            /\ ax[d].label = labels[d]
            /\ \A r \in Rows(d) :
                  Count(CratePointsOf(ax[d], d, r))
                    = IF datasets[d][r].flange = NameFor(d) THEN 1 ELSE 0
      /\ pc = "done" => Len(ax) = Len(datasets)

\* plot_crate returned; a dataset of two rows has one point, at 64*1 + 63
C2_Witness ==
    /\ OneName /\ pc = "done" /\ Len(datasets) = 1 /\ Len(datasets[1]) = 2
    /\ ax[1].x = <<127>>
    /\ \E r \in Rows(1) : datasets[1][r].flange # NameFor(1)

\* the rows of dataset d shown by scatter call `call`
CrateShown(call, d) == {r \in Rows(d) : CratePointsOf(call, d, r) # {}}
Names == {component.vals[i] : i \in 1..Len(component.vals)}
OtherLength == fn = "plot_crate" /\ component.isList
                 /\ Len(component.vals) # Len(datasets)

-----------------------------------------------------------------------------
(* The join of plot_wire_planes *)

Wire == fn = "plot_wire_planes"
Data == datasets[1]
\* the panels drawn so far
Drawn == 0..(pi - 1)

\* channel-map row i is of the TPC asked for
OfTpc(i) == chmap[i].channel_id \div 13824 = tpc.vals[1]
\* the metric rows of plane p with the channel id of channel-map row i
Partners(i, p) ==
    {j \in 1..Len(Data) : /\ Data[j].plane = p
                          /\ Data[j].channel_id = chmap[i].channel_id}
\* what cmap.to_rgba makes of the metric of data row j (metrics lie in 1..9)
ColorOf(j) == (Data[j].metric * 256) \div 10

\* the segments of panel p drawn along channel-map row i
SegmentsOf(p, i) ==
    {k \in 1..Len(segments[p]) : /\ segments[p][k].a = <<chmap[i].z0, chmap[i].y0>>
                                 /\ segments[p][k].b = <<chmap[i].z1, chmap[i].y1>>}
\* the rows the join gave panel p for channel id c
JoinRows(p, c) ==
    UNION {SegmentsOf(p, i) : i \in {i \in 1..Len(chmap) : chmap[i].channel_id = c}}
\* channel id c is matched on both sides for panel p
Matched(p, c) ==
    \E i \in 1..Len(chmap) :
        chmap[i].channel_id = c /\ OfTpc(i) /\ Partners(i, p) # {}

\* C3 as stated: for any channel map and metric table, the join gives panel p
\* exactly one row for each channel id matched on both sides, and none for
\* any other channel id.
C3_OneRowPerChannel ==
    Wire => \A p \in Drawn : \A c \in WireChannels :
                Count(JoinRows(p, c)) = IF Matched(p, c) THEN 1 ELSE 0

\* C3 amended: the join gives panel p one row for every pair of a channel-map
\* row of the TPC and a metric row of plane p with the same channel id, so a
\* channel id has as many rows as the product of its numbers of rows on the
\* two sides: exactly one per matched channel id when channel ids are unique
\* in the channel map and in the plane's metric rows, and more otherwise.
C3_Join ==
    Wire => \A p \in Drawn :
      /\ \A i \in 1..Len(chmap) :
            Count(SegmentsOf(p, i)) = IF OfTpc(i) THEN Count(Partners(i, p)) ELSE 0
      /\ \A c \in WireChannels :
            LET left == {i \in 1..Len(chmap) : chmap[i].channel_id = c /\ OfTpc(i)}
                right == {j \in 1..Len(Data) : Data[j].plane = p /\ Data[j].channel_id = c}
            IN  /\ Count(JoinRows(p, c)) = Count(left) * Count(right)
                /\ (Count(left) <= 1 /\ Count(right) <= 1) =>
                      Count(JoinRows(p, c)) = IF Matched(p, c) THEN 1 ELSE 0
      /\ Len(segments[p]) = Count(UNION {JoinRows(p, c) : c \in WireChannels})

\* the call returned; one channel id stands twice in the channel map and twice
\* in the metric rows of a plane, and the panel has four segments
C3_Witness ==
    /\ Wire /\ pc = "done"
    /\ \E p \in 0..2 : \E c \in WireChannels :
          /\ Count({i \in 1..Len(chmap) : chmap[i].channel_id = c /\ OfTpc(i)}) = 2
          /\ Count({j \in 1..Len(Data) : Data[j].plane = p /\ Data[j].channel_id = c}) = 2
          /\ Len(segments[p]) = 4

\* C4: on every panel p drawn by plot_wire_planes, the channel-map rows with
\* a segment are those whose channel_id // 13824 is the tpc argument and
\* whose channel id stands in a metric row of plane p; every segment runs
\* from (z0, y0) to (z1, y1) of such a row and has the colour of the metric
\* of a metric row of plane p with that channel id; a metric row has its
\* colour on the panel only if it is of plane p and a channel-map row of the
\* TPC has its channel id.
C4_Segments ==
    Wire => \A p \in Drawn :
      /\ \A i \in 1..Len(chmap) :
            SegmentsOf(p, i) # {} <=> (OfTpc(i) /\ Partners(i, p) # {})
      /\ \A k \in 1..Len(segments[p]) :
            \E i \in 1..Len(chmap) : \E j \in Partners(i, p) :
                /\ OfTpc(i)
                /\ segments[p][k].a = <<chmap[i].z0, chmap[i].y0>>
                /\ segments[p][k].b = <<chmap[i].z1, chmap[i].y1>>
                /\ segments[p][k].color = ColorOf(j)
      /\ \A j \in 1..Len(Data) :
            (\E k \in 1..Len(segments[p]) : segments[p][k].color = ColorOf(j))
              <=> /\ Data[j].plane = p
                  /\ \E i \in 1..Len(chmap) :
                        OfTpc(i) /\ chmap[i].channel_id = Data[j].channel_id

\* the call returned for TPC 1; of two wires and two metric rows, one wire of
\* the other TPC and one metric row of another plane are not drawn
C4_Witness ==
    /\ Wire /\ pc = "done" /\ tpc.vals[1] = 1
    /\ Len(chmap) = 2 /\ Len(Data) = 2
    /\ \E i \in 1..2 : ~OfTpc(i)
    /\ \E p \in 0..2 :
          /\ Len(segments[p]) = 1
          /\ \E j \in 1..2 : Data[j].plane # p /\ Data[j].channel_id = 13824

-----------------------------------------------------------------------------
(* Labels that do not match the datasets *)

FewerLabels == Len(labels) < Len(datasets)
MoreLabels == Len(labels) > Len(datasets)

\* C6 as stated: a call of plot_tpc or plot_crate whose number of labels is
\* not the number of datasets never returns normally.
C6_MismatchFails ==
    Len(labels) # Len(datasets) => pc # "done"

\* C6 amended (integer tpc, one component name): with fewer labels than
\* datasets plot_tpc and plot_crate end in an uncaught IndexError, raised for
\* the first dataset without a label after the labelled ones were plotted;
\* with more labels than datasets the surplus labels are never read: plot_tpc
\* returns normally, and plot_crate returns normally unless it was given no
\* dataset, where it ends in UnboundLocalError whatever the labels.
C6_Labels ==
    /\ pc = "run" => ENABLED NextLabels
    /\ FewerLabels =>
          /\ pc # "done"
          /\ pc = "raised" =>
                /\ exc = "IndexError"
                /\ di = Len(labels)
                /\ fn = "plot_tpc" => pi = 0 /\ Len(scatter[0]) = Len(labels)
                /\ fn = "plot_crate" => Len(ax) = Len(labels)
    /\ MoreLabels =>
          /\ fn = "plot_tpc" => pc # "raised"
          /\ fn = "plot_crate" =>
                /\ pc = "raised" => Len(datasets) = 0 /\ exc = "UnboundLocalError"
                /\ pc = "done" => Len(datasets) >= 1
          /\ \A p \in 0..2 : \A d \in 1..Len(scatter[p]) :
                d <= Len(datasets) /\ scatter[p][d].label = labels[d]
          /\ \A d \in 1..Len(ax) : d <= Len(datasets) /\ ax[d].label = labels[d]

\* a call with two datasets and three labels returned normally
C6_Witness ==
    /\ pc = "done" /\ Len(datasets) = 2 /\ Len(labels) = 3
    /\ fn = "plot_tpc" /\ Len(scatter[2]) = 2

-----------------------------------------------------------------------------
(* A tpc index that names no TPC *)

OutOfRange == ~tpc.isList /\ tpc.vals[1] \notin 0..3

\* C7 as stated: a call of plot_tpc or plot_wire_planes with a tpc index
\* other than 0, 1, 2, 3 never returns normally.
C7_OutOfRangeFails ==
    OutOfRange => pc # "done"

\* C7 amended: with a tpc index other than 0, 1, 2, 3, plot_wire_planes ends
\* in an uncaught KeyError, raised for the title after the three panels were
\* drawn; plot_tpc raises nothing and returns normally, having selected the
\* rows whose tpc is the index and set the windows from 13824*tpc.  With an
\* index in 0..3 neither raises.
C7_Range ==
    /\ pc = "run" => ENABLED NextRange
    /\ OutOfRange =>
          /\ fn = "plot_wire_planes" =>
                /\ pc # "done"
                /\ pc = "raised" => exc = "KeyError" /\ pi = 3 /\ suptitle = <<>>
          /\ fn = "plot_tpc" =>
                /\ pc # "raised"
                /\ \A p \in 0..2 : xlim[p] # <<>> =>
                      xlim[p][1] = 13824 * tpc.vals[1] + PlaneOffset[p + 1]
    /\ ~tpc.isList /\ ~OutOfRange => pc # "raised"

\* plot_tpc returned normally for tpc = 4 with its panels set
C7_Witness ==
    /\ fn = "plot_tpc" /\ pc = "done" /\ tpc.vals[1] = 4 /\ ~tpc.isList
    /\ Len(datasets) >= 1 /\ xlim[0] = <<55296, 57600>>

=============================================================================
